---- MODULE Spec2Model ----
(***************************************************************************)
(* functions/src/services/pdfProcessor.py: a one-shot command-line filter. *)
(* Base64 text of a PDF arrives on standard input; the extracted text and  *)
(* a PNG rendering of the first page leave as one JSON object.             *)
(*                                                                         *)
(* A Python str is modelled as a sequence of one-character strings, a      *)
(* bytes object as a sequence of integers in 0..255.  The PDF and imaging  *)
(* libraries (pypdf, pdf2image, PIL) are outside the repository: what they *)
(* return or raise on a given buffer is chosen nondeterministically at the *)
(* point of the call and recorded in env.                                  *)
(***************************************************************************)
EXTENDS Integers, Sequences, FiniteSets

VARIABLES pc, stdin, pdf_buffer, reader, page_num, text_content,
          extracted_text, image_base64, result, stdout, exitStatus, env

vars == <<pc, stdin, pdf_buffer, reader, page_num, text_content,
          extracted_text, image_base64, result, stdout, exitStatus, env>>

(***************************************************************************)
(* Bounds of the model.                                                    *)
(***************************************************************************)
\* the longest standard input tried, in characters
MaxStdin == 4
\* the largest page count a document opens with
MaxPages == 2

(***************************************************************************)
(* Characters and strings.                                                 *)
(***************************************************************************)
\* stands for one character outside ASCII
NonAscii == "U+00E9"

\* the characters standard input is drawn from: a base64 digit, the pad
\* character, whitespace, an ASCII character outside the base64 alphabet,
\* and a character outside ASCII
StdinChars == {"J", "=", " ", "!", NonAscii}

Whitespace == {" "}

B64Chars ==
  <<"A","B","C","D","E","F","G","H","I","J","K","L","M","N","O","P",
    "Q","R","S","T","U","V","W","X","Y","Z","a","b","c","d","e","f",
    "g","h","i","j","k","l","m","n","o","p","q","r","s","t","u","v",
    "w","x","y","z","0","1","2","3","4","5","6","7","8","9","+","/">>

B64Alphabet == {B64Chars[i] : i \in 1..64}

B64Value(c) == (CHOOSE i \in 1..64 : B64Chars[i] = c) - 1

DecimalDigits == <<"0","1","2","3","4","5","6","7","8","9">>

\* str(n) of a natural number
RECURSIVE Decimal(_)
Decimal(n) ==
  IF n < 10 THEN <<DecimalDigits[n + 1]>>
  ELSE Decimal(n \div 10) \o <<DecimalDigits[(n % 10) + 1]>>

\* sep.join(parts)
RECURSIVE Join(_, _)
Join(parts, sep) ==
  IF Len(parts) = 0 THEN <<>>
  ELSE IF Len(parts) = 1 THEN parts[1]
  ELSE parts[1] \o sep \o Join(Tail(parts), sep)

\* sub in s
Contains(s, sub) ==
  \E i \in 1..(Len(s) - Len(sub) + 1) : SubSeq(s, i, i + Len(sub) - 1) = sub

\* s.count(sub) for occurrences that cannot overlap themselves
Count(s, sub) ==
  Cardinality({i \in 1..(Len(s) - Len(sub) + 1) :
                 SubSeq(s, i, i + Len(sub) - 1) = sub})

\* the positions at which sub occurs in s
Positions(s, sub) ==
  {i \in 1..(Len(s) - Len(sub) + 1) : SubSeq(s, i, i + Len(sub) - 1) = sub}

\* s.strip(): leading and trailing whitespace removed
RECURSIVE LStrip(_)
LStrip(s) ==
  IF Len(s) > 0 /\ s[1] \in Whitespace THEN LStrip(Tail(s)) ELSE s

RECURSIVE RStrip(_)
RStrip(s) ==
  IF Len(s) > 0 /\ s[Len(s)] \in Whitespace
  THEN RStrip(SubSeq(s, 1, Len(s) - 1)) ELSE s

Strip(s) == RStrip(LStrip(s))

NewLine == <<"\n">>

(***************************************************************************)
(* Exceptions.                                                             *)
(***************************************************************************)
Raise(type, msg) == [type |-> type, msg |-> msg]

\* the classes raised in this program, all of them subclasses of Exception
ExceptionSubclasses ==
  {"binascii.Error", "ValueError", "Exception", "PdfReadError",
   "PDFPageCountError", "MemoryError"}

\* the messages a library error may carry: none, or a short text
LibraryMessages == {<<>>, <<"E","O","F">>}

\* mutant: the handler names one class instead of Exception
MainCatchesBinasciiOnly(exc) == exc.type = "binascii.Error"

\* main, line 144: except Exception
MainCatches(exc) == exc.type \in ExceptionSubclasses

\* process_pdf, line 116: except Exception
ProcessCatches(exc) == exc.type \in ExceptionSubclasses

(***************************************************************************)
(* base64.b64decode(s) with its default validate=False: the str is encoded *)
(* as ASCII, then binascii.a2b_base64 reads it in non-strict mode.         *)
(* Characters outside the alphabet are skipped; a pad that completes a     *)
(* quad ends the parse; data that stops inside a quad is an error.         *)
(***************************************************************************)
IncorrectPadding ==
  <<"I","n","c","o","r","r","e","c","t"," ","p","a","d","d","i","n","g">>

InvalidCount(n) ==
  <<"I","n","v","a","l","i","d"," ","b","a","s","e","6","4","-","e","n","c",
    "o","d","e","d"," ","s","t","r","i","n","g",":"," ","n","u","m","b","e",
    "r"," ","o","f"," ","d","a","t","a"," ","c","h","a","r","a","c","t","e",
    "r","s"," ","(">>
  \o Decimal(n) \o
  <<")"," ","c","a","n","n","o","t"," ","b","e"," ","1"," ","m","o","r","e",
    " ","t","h","a","n"," ","a"," ","m","u","l","t","i","p","l","e"," ","o",
    "f"," ","4">>

OnlyAscii ==
  <<"s","t","r","i","n","g"," ","a","r","g","u","m","e","n","t"," ","s","h",
    "o","u","l","d"," ","c","o","n","t","a","i","n"," ","o","n","l","y"," ",
    "A","S","C","I","I"," ","c","h","a","r","a","c","t","e","r","s">>

Decoded(bytes) == [ok |-> TRUE, bytes |-> bytes]
DecodeError(type, msg) == [ok |-> FALSE, exc |-> Raise(type, msg)]

RECURSIVE A2bBase64(_, _, _, _, _, _)
A2bBase64(s, i, quad_pos, pads, leftchar, out) ==
  IF i > Len(s) THEN
    IF quad_pos = 0 THEN Decoded(out)
    ELSE IF quad_pos = 1
      THEN DecodeError("binascii.Error",
                       InvalidCount((Len(out) \div 3) * 4 + 1))
      ELSE DecodeError("binascii.Error", IncorrectPadding)
  ELSE IF s[i] = "=" THEN
    IF quad_pos >= 2 /\ quad_pos + pads + 1 >= 4 THEN Decoded(out)
    ELSE A2bBase64(s, i + 1, quad_pos,
                   IF quad_pos >= 2 THEN pads + 1 ELSE pads, leftchar, out)
  ELSE IF s[i] \notin B64Alphabet THEN
    A2bBase64(s, i + 1, quad_pos, pads, leftchar, out)
  ELSE
    LET v == B64Value(s[i]) IN
    CASE quad_pos = 0 -> A2bBase64(s, i + 1, 1, 0, v, out)
      [] quad_pos = 1 ->
           A2bBase64(s, i + 1, 2, 0, v % 16,
                     Append(out, (leftchar * 4 + (v \div 16)) % 256))
      [] quad_pos = 2 ->
           A2bBase64(s, i + 1, 3, 0, v % 4,
                     Append(out, (leftchar * 16 + (v \div 4)) % 256))
      [] quad_pos = 3 ->
           A2bBase64(s, i + 1, 0, 0, 0,
                     Append(out, (leftchar * 64 + v) % 256))

\* main, line 136
B64Decode(s) ==
  IF \E i \in 1..Len(s) : s[i] = NonAscii
  THEN DecodeError("ValueError", OnlyAscii)
  ELSE A2bBase64(s, 1, 0, 0, 0, <<>>)

\* base64.b64encode(bytes).decode('utf-8')
RECURSIVE B64Encode(_)
B64Encode(b) ==
  IF Len(b) = 0 THEN <<>>
  ELSE IF Len(b) = 1 THEN
    <<B64Chars[(b[1] \div 4) + 1], B64Chars[(b[1] % 4) * 16 + 1], "=", "=">>
  ELSE IF Len(b) = 2 THEN
    <<B64Chars[(b[1] \div 4) + 1],
      B64Chars[(b[1] % 4) * 16 + (b[2] \div 16) + 1],
      B64Chars[(b[2] % 16) * 4 + 1], "=">>
  ELSE
    <<B64Chars[(b[1] \div 4) + 1],
      B64Chars[(b[1] % 4) * 16 + (b[2] \div 16) + 1],
      B64Chars[(b[2] % 16) * 4 + (b[3] \div 64) + 1],
      B64Chars[(b[3] % 64) + 1]>>
    \o B64Encode(SubSeq(b, 4, Len(b)))

(***************************************************************************)
(* Images.  PIL writes a PNG as the eight signature bytes followed by the  *)
(* chunks; the model keeps the signature and the two dimensions of the     *)
(* header chunk, each a 4-byte big-endian integer.                         *)
(***************************************************************************)
PngSignature == <<137, 80, 78, 71, 13, 10, 26, 10>>

BigEndian32(n) ==
  <<(n \div 16777216) % 256, (n \div 65536) % 256, (n \div 256) % 256,
    n % 256>>

\* image.save(buffer, format='PNG'); buffer.getvalue()
PngEncode(image) ==
  PngSignature \o BigEndian32(image.width) \o BigEndian32(image.height)

IsPng(bytes) ==
  /\ Len(bytes) >= 16
  /\ SubSeq(bytes, 1, 8) = PngSignature

\* convert_pdf_to_image, line 86: the width of the fallback image
FallbackWidth == 400
\* convert_pdf_to_image, line 86: the height of the fallback image
FallbackHeight == 200
\* convert_pdf_to_image, line 65: the resolution of the rendering
RenderDpi == 150

\* Image.new('RGB', (400, 200), color='white')
FallbackImage == [width |-> FallbackWidth, height |-> FallbackHeight]

\* the page sizes the renderer may meet, in hundredths of an inch (A4, Letter)
PageSizes == {<<827, 1169>>, <<850, 1100>>}

\* convert_from_bytes(..., dpi=150)[0] for a page of the given size
RenderedImage(size) ==
  [width |-> (size[1] * RenderDpi) \div 100,
   height |-> (size[2] * RenderDpi) \div 100]

\* mutant: the buffer is encoded before anything is saved into it
ImageToBase64Unsaved(image) == B64Encode(<<>>)

\* convert_pdf_to_image, lines 76-78 and 87-89
ImageToBase64(image) == B64Encode(PngEncode(image))

(***************************************************************************)
(* Text.                                                                   *)
(***************************************************************************)
\* f"--- Page {page_num + 1} ---", page_num counted from 0
PageMarker(pn) ==
  <<"-","-","-"," ","P","a","g","e"," ">> \o Decimal(pn + 1)
  \o <<" ","-","-","-">>

\* f"--- Page {page_num + 1} --- [Text extraction failed]"
PageFailedMarker(pn) ==
  PageMarker(pn)
  \o <<" ","[","T","e","x","t"," ","e","x","t","r","a","c","t","i","o","n",
       " ","f","a","i","l","e","d","]">>

\* mutant: the failure is reported as an empty text
TextExtractionFailedEmpty(exc) == <<>>

\* extract_text_from_pdf, line 52
TextExtractionFailed(exc) ==
  <<"[","P","D","F"," ","t","e","x","t"," ","e","x","t","r","a","c","t","i",
    "o","n"," ","f","a","i","l","e","d",":"," ">> \o exc.msg \o <<"]">>

ExtractionFailedWords ==
  <<"e","x","t","r","a","c","t","i","o","n"," ","f","a","i","l","e","d">>

\* the texts page.extract_text() may return when it returns any
PageTexts == {<<"H","i">>, <<"T","o","t","a","l"," ","9">>}

(***************************************************************************)
(* Result records.                                                         *)
(***************************************************************************)
NoResult == [unset |-> TRUE]

\* mutant: the two lengths are taken from the wrong fields
SuccessResultSwapped(text, image) ==
  [success |-> TRUE, text |-> text, image_base64 |-> image,
   text_length |-> Len(image), image_size |-> Len(text)]

\* process_pdf, lines 105-111
SuccessResult(text, image) ==
  [success |-> TRUE, text |-> text, image_base64 |-> image,
   text_length |-> Len(text), image_size |-> Len(image)]

\* process_pdf, lines 118-125
ProcessFailedResult(exc) ==
  [success |-> FALSE, error |-> exc.msg,
   text |-> <<"[","P","D","F"," ","p","r","o","c","e","s","s","i","n","g",
              " ","f","a","i","l","e","d",":"," ">> \o exc.msg \o <<"]">>,
   image_base64 |-> <<>>, text_length |-> 0, image_size |-> 0]

\* mutant: the handler reports the failure as a success
MainFailedResultAsSuccess(exc) ==
  [success |-> TRUE, error |-> exc.msg,
   text |-> <<"[","P","r","o","c","e","s","s","i","n","g"," ","f","a","i",
              "l","e","d",":"," ">> \o exc.msg \o <<"]">>,
   image_base64 |-> <<>>, text_length |-> 0, image_size |-> 0]

\* main, lines 145-152
MainFailedResult(exc) ==
  [success |-> FALSE, error |-> exc.msg,
   text |-> <<"[","P","r","o","c","e","s","s","i","n","g"," ","f","a","i",
              "l","e","d",":"," ">> \o exc.msg \o <<"]">>,
   image_base64 |-> <<>>, text_length |-> 0, image_size |-> 0]

(***************************************************************************)
(* Standard output.  print() with no file argument writes one line to      *)
(* standard output; json.dumps turns the record into the text of a JSON    *)
(* object.                                                                 *)
(***************************************************************************)
Diagnostic(text) == [kind |-> "diagnostic", text |-> text]

JsonDumps(r) == [kind |-> "json", value |-> r]

WriteLine(out, line) == Append(out, line)

JsonLines(out) == {i \in 1..Len(out) : out[i].kind = "json"}

DiagnosticLines(out) == {i \in 1..Len(out) : out[i].kind = "diagnostic"}

(***************************************************************************)
(* The state after the interpreter has started and before the imports.     *)
(***************************************************************************)
StdinInputs == UNION {[1..n -> StdinChars] : n \in 0..MaxStdin}

NothingCalled ==
  [imports |-> "pending", open |-> "none", pages |-> <<>>,
   render |-> "none", fallback |-> "none"]

Init ==
  /\ pc = "import"
  /\ stdin \in StdinInputs
  /\ pdf_buffer = <<>>
  /\ reader = [opened |-> FALSE, numPages |-> 0]
  /\ page_num = 0
  /\ text_content = <<>>
  /\ extracted_text = <<>>
  /\ image_base64 = <<>>
  /\ result = NoResult
  /\ stdout = <<>>
  /\ exitStatus = <<>>
  /\ env = NothingCalled

(***************************************************************************)
(* Lines 15-22: the import guard.                                          *)
(***************************************************************************)
ImportLibraries ==
  /\ pc = "import"
  /\ \E loaded \in BOOLEAN :
       IF loaded
       THEN /\ pc' = "main"
            /\ env' = [env EXCEPT !.imports = "ok"]
            /\ UNCHANGED <<stdout, exitStatus>>
       ELSE /\ pc' = "exited"
            /\ env' = [env EXCEPT !.imports = "failed"]
            /\ stdout' =
                 WriteLine(WriteLine(stdout,
                   Diagnostic("Error importing required libraries")),
                   Diagnostic("Please install: pip install pypdf pdf2image pillow"))
            /\ exitStatus' = <<1>>
  /\ UNCHANGED <<stdin, pdf_buffer, reader, page_num, text_content,
                 extracted_text, image_base64, result>>

(***************************************************************************)
(* Lines 144-153: the handler of main.  What it does not catch leaves the  *)
(* interpreter with a traceback and exit status 1.                         *)
(***************************************************************************)
\* mutant: the handler swallows the error and prints nothing
MainHandlerSilent(exc, out) ==
  /\ result' = result
  /\ stdout' = out
  /\ pc' = "return"
  /\ exitStatus' = exitStatus

MainHandler(exc, out) ==
  IF MainCatches(exc)
  THEN /\ result' = MainFailedResult(exc)
       /\ stdout' = WriteLine(out, JsonDumps(MainFailedResult(exc)))
       /\ pc' = "return"
       /\ exitStatus' = exitStatus
  ELSE /\ result' = result
       /\ stdout' = out
       /\ pc' = "exited"
       /\ exitStatus' = <<1>>

(***************************************************************************)
(* Lines 116-125: the handler of process_pdf.                              *)
(***************************************************************************)
ProcessHandler(exc, out) ==
  IF ProcessCatches(exc)
  THEN /\ result' = ProcessFailedResult(exc)
       /\ stdout' = WriteLine(out, Diagnostic("Error in PDF processing"))
       /\ pc' = "emit"
       /\ exitStatus' = exitStatus
  ELSE MainHandler(exc, out)

(***************************************************************************)
(* Lines 133-139: main reads standard input, strips it and decodes it.     *)
(***************************************************************************)
MainReadStdin ==
  /\ pc = "main"
  /\ LET decoded == B64Decode(Strip(stdin)) IN
       IF decoded.ok
       THEN /\ pdf_buffer' = decoded.bytes
            /\ pc' = "process"
            /\ UNCHANGED <<result, stdout, exitStatus>>
       ELSE /\ MainHandler(decoded.exc, stdout)
            /\ UNCHANGED pdf_buffer
  /\ UNCHANGED <<stdin, reader, page_num, text_content, extracted_text,
                 image_base64, env>>

(***************************************************************************)
(* Lines 95-97: process_pdf announces itself.                              *)
(***************************************************************************)
ProcessStart ==
  /\ pc = "process"
  /\ stdout' =
       WriteLine(WriteLine(stdout,
         Diagnostic("=== PYTHON PDF PROCESSING START ===")),
         Diagnostic("Processing PDF buffer of n bytes"))
  /\ pc' = "open"
  /\ UNCHANGED <<stdin, pdf_buffer, reader, page_num, text_content,
                 extracted_text, image_base64, result, exitStatus, env>>

(***************************************************************************)
(* Lines 28-35 and 50-52: the reader is opened on the buffer.  An empty    *)
(* buffer is no document; on any other the library decides.                *)
(***************************************************************************)
OpenReader ==
  /\ pc = "open"
  /\ \/ /\ Len(pdf_buffer) > 0
        /\ \E n \in 0..MaxPages :
             reader' = [opened |-> TRUE, numPages |-> n]
        /\ page_num' = 0
        /\ text_content' = <<>>
        /\ pc' = "pages"
        /\ env' = [env EXCEPT !.open = "ok"]
        /\ UNCHANGED <<extracted_text, stdout>>
     \/ /\ \E msg \in LibraryMessages :
             extracted_text' = TextExtractionFailed(Raise("PdfReadError", msg))
        /\ stdout' =
             WriteLine(stdout, Diagnostic("Error extracting text from PDF"))
        /\ pc' = "convert"
        /\ env' = [env EXCEPT !.open = "raised"]
        /\ UNCHANGED <<reader, page_num, text_content>>
  /\ UNCHANGED <<stdin, pdf_buffer, image_base64, result, exitStatus>>

(***************************************************************************)
(* Lines 36-44 and 50-52: one turn of the loop over reader.pages.  The     *)
(* page is fetched by the loop header, outside the inner try; its text is  *)
(* extracted inside it.                                                    *)
(***************************************************************************)
ExtractPage ==
  /\ pc = "pages"
  /\ page_num < reader.numPages
  /\ \/ /\ \E msg \in LibraryMessages :
             extracted_text' = TextExtractionFailed(Raise("PdfReadError", msg))
        /\ stdout' =
             WriteLine(stdout, Diagnostic("Error extracting text from PDF"))
        /\ pc' = "convert"
        /\ env' = [env EXCEPT !.pages = Append(@, "fetch raised")]
        /\ UNCHANGED <<page_num, text_content>>
     \/ /\ \E page_text \in PageTexts :
             text_content' =
               Append(Append(text_content, PageMarker(page_num)), page_text)
        /\ page_num' = page_num + 1
        /\ env' = [env EXCEPT !.pages = Append(@, "text")]
        /\ UNCHANGED <<pc, extracted_text, stdout>>
     \/ /\ page_num' = page_num + 1
        /\ env' = [env EXCEPT !.pages = Append(@, "empty")]
        /\ UNCHANGED <<pc, text_content, extracted_text, stdout>>
     \/ /\ stdout' =
             WriteLine(stdout, Diagnostic("Error extracting text from page"))
        /\ text_content' = Append(text_content, PageFailedMarker(page_num))
        /\ page_num' = page_num + 1
        /\ env' = [env EXCEPT !.pages = Append(@, "raised")]
        /\ UNCHANGED <<pc, extracted_text>>
  /\ UNCHANGED <<stdin, pdf_buffer, reader, image_base64, result, exitStatus>>

(***************************************************************************)
(* Lines 46-48: the loop is over, the collected parts are joined.          *)
(***************************************************************************)
JoinText ==
  /\ pc = "pages"
  /\ page_num = reader.numPages
  /\ extracted_text' = Join(text_content, NewLine)
  /\ stdout' = WriteLine(stdout, Diagnostic("Successfully extracted"))
  /\ pc' = "convert"
  /\ UNCHANGED <<stdin, pdf_buffer, reader, page_num, text_content,
                 image_base64, result, exitStatus, env>>

(***************************************************************************)
(* Lines 59-89: the first page is rendered.  When the renderer raises or   *)
(* returns no image, the handler builds the fallback image; what building  *)
(* it raises leaves convert_pdf_to_image for the handler of process_pdf.   *)
(***************************************************************************)
ConvertPdfToImage ==
  /\ pc = "convert"
  /\ \/ /\ Len(pdf_buffer) > 0
        /\ \E size \in PageSizes :
             image_base64' = ImageToBase64(RenderedImage(size))
        /\ stdout' =
             WriteLine(stdout, Diagnostic("Successfully converted PDF page"))
        /\ pc' = "assemble"
        /\ env' = [env EXCEPT !.render = "ok"]
        /\ UNCHANGED <<result, exitStatus>>
     \/ /\ \E failure \in {"no images", "raised"} :
             env' = [env EXCEPT !.render = failure, !.fallback = "ok"]
        /\ image_base64' = ImageToBase64(FallbackImage)
        /\ stdout' =
             WriteLine(stdout, Diagnostic("Error converting PDF to image"))
        /\ pc' = "assemble"
        /\ UNCHANGED <<result, exitStatus>>
     \/ /\ \E failure \in {"no images", "raised"} :
             env' = [env EXCEPT !.render = failure, !.fallback = "raised"]
        /\ \E msg \in LibraryMessages :
             ProcessHandler(Raise("MemoryError", msg),
               WriteLine(stdout, Diagnostic("Error converting PDF to image")))
        /\ UNCHANGED image_base64
  /\ UNCHANGED <<stdin, pdf_buffer, reader, page_num, text_content,
                 extracted_text>>

(***************************************************************************)
(* Lines 105-114: the result of a run in which nothing reached the handler *)
(* of process_pdf.                                                         *)
(***************************************************************************)
AssembleResult ==
  /\ pc = "assemble"
  /\ result' = SuccessResult(extracted_text, image_base64)
  /\ stdout' =
       WriteLine(stdout, Diagnostic("=== PYTHON PDF PROCESSING COMPLETE ==="))
  /\ pc' = "emit"
  /\ UNCHANGED <<stdin, pdf_buffer, reader, page_num, text_content,
                 extracted_text, image_base64, exitStatus, env>>

(***************************************************************************)
(* Line 142: main prints the result process_pdf returned.                  *)
(***************************************************************************)
EmitJson ==
  /\ pc = "emit"
  /\ stdout' = WriteLine(stdout, JsonDumps(result))
  /\ pc' = "return"
  /\ UNCHANGED <<stdin, pdf_buffer, reader, page_num, text_content,
                 extracted_text, image_base64, result, exitStatus, env>>

(***************************************************************************)
(* Lines 155-156: main has returned and the interpreter exits.             *)
(***************************************************************************)
ProcessExit ==
  /\ pc = "return"
  /\ pc' = "exited"
  /\ exitStatus' = <<0>>
  /\ UNCHANGED <<stdin, pdf_buffer, reader, page_num, text_content,
                 extracted_text, image_base64, result, stdout, env>>

Next ==
  \/ ImportLibraries
  \/ MainReadStdin
  \/ ProcessStart
  \/ OpenReader
  \/ ExtractPage
  \/ JoinText
  \/ ConvertPdfToImage
  \/ AssembleResult
  \/ EmitJson
  \/ ProcessExit

Spec == Init /\ [][Next]_vars

\* the interpreter runs one thread to completion: a step that can be taken is taken
FairSpec == Spec /\ WF_vars(Next)

TypeOK ==
  /\ pc \in {"import", "main", "process", "open", "pages", "convert",
             "assemble", "emit", "return", "exited"}
  /\ stdin \in StdinInputs
  /\ \A i \in 1..Len(pdf_buffer) : pdf_buffer[i] \in 0..255
  /\ page_num \in 0..reader.numPages
  /\ reader.numPages \in 0..MaxPages
  /\ Len(exitStatus) <= 1

(***************************************************************************)
(* Vocabulary of the properties.                                           *)
(***************************************************************************)
\* the results written to standard output as JSON
Emitted == {stdout[i].value : i \in JsonLines(stdout)}

\* main has returned or the interpreter has exited
MainOver == pc \in {"return", "exited"}

\* extract_text_from_pdf has returned
TextReturned == pc \in {"convert", "assemble", "emit", "return", "exited"}

\* process_pdf is running or has run
ProcessInvoked == pc \in {"process", "open", "pages", "convert", "assemble",
                          "emit"} \/ env.open # "none"

\* RFC 4648 base64: whole quads of alphabet characters, the last of which
\* may end in one or two pad characters
IsValidBase64(s) ==
  /\ Len(s) % 4 = 0
  /\ \A i \in 1..Len(s) :
       \/ s[i] \in B64Alphabet
       \/ /\ s[i] = "="
          /\ i > Len(s) - 2
          /\ \A j \in i..Len(s) : s[j] = "="

RenderFailed == env.render \in {"no images", "raised"}

\* a result of the failure shape: success false, an error string, no image,
\* both sizes zero
IsFailureRecord(r) ==
  /\ r.success = FALSE
  /\ "error" \in DOMAIN r
  /\ r.image_base64 = <<>>
  /\ r.text_length = 0
  /\ r.image_size = 0

\* the image field decodes to the PNG of the 400x200 fallback image
IsFallbackPng(image) ==
  /\ B64Decode(image).ok
  /\ B64Decode(image).bytes =
       PngSignature \o BigEndian32(400) \o BigEndian32(200)

\* the image field decodes to a PNG
DecodesToPng(image) ==
  /\ Len(image) > 0
  /\ B64Decode(image).ok
  /\ IsPng(B64Decode(image).bytes)

(***************************************************************************)
(* C1: every run of main ends, with exactly one JSON object written (at no *)
(* point two, at the end not zero) and no error having left main, whatever *)
(* standard input holds and whichever of decoding, text extraction,        *)
(* rendering and fallback creation fail.                                   *)
(***************************************************************************)
C1_OneJsonThenExit ==
  /\ [](Cardinality(JsonLines(stdout)) <= 1)
  /\ [](pc = "main" =>
          <>(/\ pc = "exited"
             /\ Cardinality(JsonLines(stdout)) = 1
             /\ exitStatus = <<0>>))

\* a run in which text extraction, rendering and fallback creation all failed
C1_Witness ==
  /\ pc = "exited"
  /\ env.open = "raised"
  /\ env.render = "raised"
  /\ env.fallback = "raised"
  /\ Cardinality(JsonLines(stdout)) = 1

(***************************************************************************)
(* C2: in every run of main standard output holds one line only, the JSON  *)
(* result, written once processing is over, and no diagnostic line.        *)
(***************************************************************************)
C2_StdoutHoldsOnlyTheJson ==
  env.imports = "ok" =>
    /\ DiagnosticLines(stdout) = {}
    /\ Len(stdout) <= 1
    /\ (JsonLines(stdout) # {} => MainOver)
    /\ (pc = "exited" => Len(stdout) = 1)

(***************************************************************************)
(* C3: standard input that, stripped, is not valid base64 gives a result   *)
(* with success false and a non-empty error, and process_pdf is not        *)
(* invoked.                                                                *)
(***************************************************************************)
C3_InvalidBase64IsRejected ==
  (env.imports = "ok" /\ ~IsValidBase64(Strip(stdin))) =>
    /\ ~ProcessInvoked
    /\ \A r \in Emitted : r.success = FALSE /\ Len(r.error) > 0

(***************************************************************************)
(* C4, as claimed: in every emitted result text_length is the length of    *)
(* text and image_size the length of image_base64.                         *)
(***************************************************************************)
C4_LengthsMatchInEveryResult ==
  \A r \in Emitted :
    /\ r.text_length = Len(r.text)
    /\ r.image_size = Len(r.image_base64)

(***************************************************************************)
(* C4, amended: the two lengths match in every result with success true;   *)
(* a failure record has image_size equal to the length of its empty        *)
(* image_base64, and text_length zero beside a non-empty placeholder text. *)
(***************************************************************************)
C4_LengthsMatchOnSuccess ==
  \A r \in Emitted :
    IF r.success
    THEN /\ r.text_length = Len(r.text)
         /\ r.image_size = Len(r.image_base64)
    ELSE /\ r.image_size = Len(r.image_base64)
         /\ r.image_size = 0
         /\ r.text_length = 0
         /\ Len(r.text) > 0

\* a success result with a text and an image of different lengths
C4_Witness ==
  \E r \in Emitted :
    /\ r.success
    /\ r.text_length > 0
    /\ r.image_size > 0
    /\ r.text_length # r.image_size

(***************************************************************************)
(* C5: when the document opened with N pages and every page was fetched,   *)
(* the returned text holds the marker of each page 1..N exactly once, in   *)
(* increasing order, whether the page gave text, gave none or raised.      *)
(***************************************************************************)
C5_OneMarkerPerPage ==
  (/\ TextReturned
   /\ env.open = "ok"
   /\ \A i \in 1..Len(env.pages) : env.pages[i] # "fetch raised") =>
    /\ \A k \in 1..reader.numPages :
         Count(extracted_text, PageMarker(k - 1)) = 1
    /\ \A j, k \in 1..reader.numPages :
         j < k =>
           \A p \in Positions(extracted_text, PageMarker(j - 1)) :
             \A q \in Positions(extracted_text, PageMarker(k - 1)) : p < q

(***************************************************************************)
(* C6: a failure on one page, raised by the page-text call or by the fetch *)
(* of the page, does not end the extraction: every page of the document is *)
(* visited and what was collected is in the returned text.                 *)
(***************************************************************************)
C6_PageFailureNeverAborts ==
  (TextReturned /\ env.open = "ok") =>
    /\ Len(env.pages) = reader.numPages
    /\ \A i \in 1..Len(text_content) :
         Contains(extracted_text, text_content[i])

C8_DecodeAndOpenFailuresGiveFailureRecord ==
  (~B64Decode(Strip(stdin)).ok \/ env.open = "raised") =>
    \A r \in Emitted : IsFailureRecord(r)

(***************************************************************************)
(* C8, amended: when the input fails to decode, the emitted result is a    *)
(* failure record with a non-empty error.  When the document fails to open *)
(* the text extractor absorbs the failure: the emitted result has success  *)
(* true and no error field, unless creating the fallback image raised.     *)
(***************************************************************************)
C8_OnlyDecodeFailureGivesFailureRecord ==
  \A r \in Emitted :
    /\ ~B64Decode(Strip(stdin)).ok =>
         /\ IsFailureRecord(r)
         /\ Len(r.error) > 0
         /\ ~ProcessInvoked
    /\ (env.open = "raised" /\ env.fallback # "raised") =>
         /\ r.success
         /\ "error" \notin DOMAIN r
         /\ r.image_base64 # <<>>
    /\ IsFailureRecord(r) =>
         ~B64Decode(Strip(stdin)).ok \/ env.fallback = "raised"

\* input that failed to decode, its failure record written
C8_Witness ==
  /\ pc = "exited"
  /\ ~B64Decode(Strip(stdin)).ok
  /\ \E r \in Emitted : IsFailureRecord(r)

C10_ImageAlwaysPng ==
  \A r \in Emitted : DecodesToPng(r.image_base64)

(***************************************************************************)
(* C10, amended: in every emitted result with success true image_base64 is *)
(* non-empty and decodes to a PNG, the fallback one whenever rendering     *)
(* failed; a rendering failure alone never makes the result a failure.     *)
(* The failure records carry the empty string as their image.              *)
(***************************************************************************)
C10_ImageIsPngOnSuccess ==
  \A r \in Emitted :
    /\ r.success => DecodesToPng(r.image_base64)
    /\ (r.success /\ RenderFailed) => IsFallbackPng(r.image_base64)
    /\ (RenderFailed /\ env.fallback = "ok") => r.success
    /\ ~r.success => r.image_base64 = <<>>

\* a document that opened, failed to render and got the fallback image
C10_Witness ==
  /\ env.open = "ok"
  /\ env.render = "raised"
  /\ \E r \in Emitted : r.success /\ IsFallbackPng(r.image_base64)

====
